---- MODULE Spec2Model ----
(***************************************************************************)
(* Background worker of the YouTube analyzer extension (background.js,     *)
(* "Version 6.0"), its API client (api-client.js) and contextUtils.        *)
(*                                                                         *)
(* The worker is one JavaScript realm: every action below is one task of   *)
(* the event loop, from the event that starts it (or the promise that      *)
(* resumes it) to the next await that waits for the outside world          *)
(* (chrome.storage, fetch).                                                *)
(***************************************************************************)
EXTENDS Integers, Sequences, FiniteSets, TLC

\* ---------------------------------------------------------------- bounds
MaxMsgs == 3           \* messages delivered to the worker in one run
MaxTicks == 2          \* half hours that pass in one run of the cache
MaxCooldowns == 3      \* cooldown periods that pass in one run of the worker
MaxCacheTime == 1      \* largest cacheTime (hours) the options page stores
MaxRetries == 6        \* largest maxRetries a caller of sendMessageWithRetry passes
MaxComments == 3       \* longest comment list given to analyzeCommentSentiment
MaxPolls == 4          \* polls of a context validator in one run

\* ------------------------------------------------------ program constants
MAX_INITIALIZATION_ATTEMPTS == 3
INIT_COOLDOWN_MS == 30000
MsPerHour == 3600000
DefaultMaxResults == 20
AnalyzeMaxResults == 50
DefaultMaxRetries == 3
DefaultDelayMs == 500
MaxDelayMs == 3000
MsPerDay == 86400000

BASE_URL == "https://www.googleapis.com/youtube/v3"

\* ------------------------------------------------------------ value sets
Null == "null"                       \* JavaScript null / undefined / absent key
Credentials == {"K1", "K2"}
ReqIds == {1, 2}                     \* handleMessage invocations that may overlap

ErrContextInvalid == "Extension context is invalid. Please reload the extension."
ErrNotInitialized == "Extension not fully initialized. Please try again."
ErrKeyNotSet == "YouTube API Key is not set. Please set it in the extension options."
ErrUnknownType == "Unknown message type"
ErrVideoNotFound == "Video not found or no data available."
ErrNoTrending == "No trending videos found."
ErrChannelNotFound == "Channel not found or no data available."
ErrVideoContext == "Failed to fetch video data due to context issue."
ErrTrendingContext == "Failed to fetch trending videos due to context issue."
ErrCommentsContext == "Failed to fetch video comments due to context issue."
ErrTypeError == "Cannot read properties of undefined (reading 'topLevelComment')"
ErrSearchTypeError == "Cannot read properties of undefined (reading 'videoId')"
ErrTitleTypeError == "Cannot read properties of undefined (reading 'title')"
ErrChannelContext == "Failed to fetch channel data due to context issue."
ErrAnalyzeVideoContext == "Failed to analyze video data due to context issue."
ErrAnalyzeChannelContext == "Failed to analyze channel data due to context issue."
ErrAnalyzeCommentsContext == "Failed to analyze comments due to context issue."
ErrStatus == "API request failed with status: 403"
ErrUpstream == "The request cannot be completed because you have exceeded your quota."
ErrJson == "Unexpected token < in JSON at position 0"
ErrNetwork == "Failed to fetch"
ErrStorage == "storage error"

\* A JavaScript value used as a condition.
Truthy(v) == v \notin {Null, ""}

\* The messages a UI surface sends (one representative per parameter).
\* id is videoId, or regionCode for GET_TRENDING_VIDEOS; "PING" is a kind the worker
\* does not know.
Messages ==
    {[type |-> "GET_VIDEO_DATA", id |-> "v1", category |-> Null, apiKey |-> Null],
     [type |-> "GET_TRENDING_VIDEOS", id |-> "US", category |-> "", apiKey |-> Null],
     [type |-> "GET_VIDEO_COMMENTS", id |-> "v1", category |-> Null, apiKey |-> Null],
     [type |-> "CLEAR_CACHE", id |-> Null, category |-> Null, apiKey |-> Null],
     [type |-> "PING", id |-> Null, category |-> Null, apiKey |-> Null]}
    \cup {[type |-> "SAVE_API_KEY", id |-> Null, category |-> Null, apiKey |-> k] :
             k \in Credentials \cup {""}}

NoMessage == [type |-> Null, id |-> Null, category |-> Null, apiKey |-> Null]

\* The request kinds that go to the API client: the GET_* cases hand the accessor's
\* value to the sender, the ANALYZE_* cases hand it to the dataProcessor first.
GetTypes == {"GET_CHANNEL_DATA", "GET_VIDEO_DATA", "GET_TRENDING_VIDEOS",
             "GET_VIDEO_COMMENTS"}
AnalyzeTypes == {"ANALYZE_VIDEO_DATA", "ANALYZE_CHANNEL_DATA", "ANALYZE_COMMENTS"}
DataTypes == GetTypes \cup AnalyzeTypes

\* The nine request kinds of handleMessage.
RequestKinds == DataTypes \cup {"SAVE_API_KEY", "CLEAR_CACHE"}

\* The messages of the remaining request kinds (id is the channelId or videoId).
MoreMessages ==
    {[type |-> "GET_CHANNEL_DATA", id |-> "c1", category |-> Null, apiKey |-> Null],
     [type |-> "ANALYZE_VIDEO_DATA", id |-> "v1", category |-> Null, apiKey |-> Null],
     [type |-> "ANALYZE_CHANNEL_DATA", id |-> "c1", category |-> Null, apiKey |-> Null],
     [type |-> "ANALYZE_COMMENTS", id |-> "v1", category |-> Null, apiKey |-> Null]}

AllMessages == Messages \cup MoreMessages

\* The five accessors of the API client that the specification names.
Accessors == {"getChannelData", "getVideoData", "getTrendingVideos", "getVideoComments",
              "searchContent"}

\* Calls of an accessor by a module of the worker, without handleMessage (as
\* dataProcessor.getVideoComments does): id is the channelId, videoId, regionCode or
\* query, category the category or the search type.
Calls ==
    {[type |-> "getChannelData", id |-> "c1", category |-> Null, apiKey |-> Null],
     [type |-> "getVideoData", id |-> "v1", category |-> Null, apiKey |-> Null],
     [type |-> "getTrendingVideos", id |-> "US", category |-> "", apiKey |-> Null],
     [type |-> "getVideoComments", id |-> "v1", category |-> Null, apiKey |-> Null],
     [type |-> "searchContent", id |-> "q1", category |-> "video", apiKey |-> Null]}

\* The accessor a request or call of this type goes to, or Null.
AccessorOf(type) ==
    CASE type \in {"GET_VIDEO_DATA", "ANALYZE_VIDEO_DATA"} -> "getVideoData"
      [] type \in {"GET_CHANNEL_DATA", "ANALYZE_CHANNEL_DATA"} -> "getChannelData"
      [] type = "GET_TRENDING_VIDEOS" -> "getTrendingVideos"
      [] type \in {"GET_VIDEO_COMMENTS", "ANALYZE_COMMENTS"} -> "getVideoComments"
      [] type \in Accessors -> type
      [] OTHER -> Null

\* ------------------------------------------------------------- variables
VARIABLES
    now,                    \* Date.now()
    ctx,                    \* the extension context: "valid", "noId" (chrome.runtime.id gone), "gone" (chrome.runtime gone)
    storedKey,              \* chrome.storage.sync youtubeApiKey
    cacheTime,              \* chrome.storage.sync cacheTime (hours)
    apiKey,                 \* youTubeApiClient.apiKey
    cache,                  \* youTubeApiClient.cache
    isInitialized,
    initializationAttempts,
    lastInitAttemptTime,
    instance,               \* youtubeAnalyzerInstance ~= null
    initPending,            \* init() calls waiting for youTubeApiClient.init()
    messageHandler,         \* this.messageHandler ~= null
    isListenerActive,
    contextValidator,       \* this.contextValidator ~= null
    listeners,              \* handlers registered with chrome.runtime.onMessage
    timers,                 \* live setInterval timers
    req,                    \* handleMessage invocations waiting at an await, by slot
    last,                   \* the latest event at the message channel (ghost)
    delivered,              \* messages delivered and calls made so far (ghost, bounds the run)
    popup,                  \* the sendMessageWithRetry call of the popup
    dp,                     \* a call of a dataProcessor function: its argument and result
    cv                      \* a validator made by contextUtils.createContextValidator

vars == <<now, ctx, storedKey, cacheTime, apiKey, cache, isInitialized,
          initializationAttempts, lastInitAttemptTime, instance, initPending,
          messageHandler, isListenerActive, contextValidator, listeners, timers, req,
          last, delivered, popup, dp, cv>>

workerVars == <<isInitialized, initializationAttempts, lastInitAttemptTime, instance,
                initPending>>
listenerVars == <<messageHandler, isListenerActive, contextValidator, listeners, timers>>
storageVars == <<storedKey, cacheTime>>

\* ------------------------------------------------------------ contextUtils
isExtensionContextValid == ctx = "valid"

\* typeof chrome !== 'undefined' && !!chrome.runtime
BasicChromeAvailable == ctx # "gone"

\* The error messages of this model that contain one of the three substrings
\* handleMessage and safeExecute look for.
ErrInvalidated == "Extension context invalidated."
IsContextErrorMessage(msg) ==
    msg \in {ErrInvalidated, ErrTypeError, ErrSearchTypeError, ErrTitleTypeError}

\* --------------------------------------------------------------- API client
\* String(v) of a number, as URLSearchParams applies it to a parameter value.
NumToStr(n) == CASE n = 20 -> "20" [] n = 50 -> "50" [] OTHER -> "NaN"

\* new URLSearchParams(params).toString(): name=value pairs in insertion order.
QueryString(params) == [i \in 1..Len(params) |-> <<params[i][1], "=", params[i][2]>>]

\* `${BASE_URL}/${endpoint}?${queryParams}`
Url(endpoint, params) == <<BASE_URL, "/", endpoint, "?", QueryString(params)>>

\* `${url}&key=${this.apiKey}`
FullUrl(url, key) == <<url, "&key=", key>>

\* (a cache key that is the full URL, credential included)
CacheKeyWithCredential(endpoint, params) == FullUrl(Url(endpoint, params), apiKey)

\* const cacheKey = url
CacheKey(endpoint, params) == Url(endpoint, params)


VideoParams(videoId) ==
    << <<"part", "snippet,statistics,contentDetails,topicDetails">>, <<"id", videoId>> >>

TrendingParams(regionCode, category) ==
    << <<"part", "snippet,statistics">>, <<"chart", "mostPopular">>,
       <<"maxResults", NumToStr(20)>>, <<"regionCode", regionCode>> >>
    \o (IF Truthy(category) THEN << <<"videoCategoryId", category>> >> ELSE << >>)

CommentParams(videoId, maxResults) ==
    << <<"part", "snippet">>, <<"videoId", videoId>>, <<"maxResults", NumToStr(maxResults)>> >>

ChannelParams(channelId) ==
    << <<"part", "snippet,statistics,brandingSettings">>, <<"id", channelId>> >>

SearchParams(query, type, maxResults) ==
    << <<"part", "snippet">>, <<"q", query>>, <<"type", type>>,
       <<"maxResults", NumToStr(maxResults)>> >>

\* The request() call an accessor makes for a message.
EndpointOf(m) ==
    CASE AccessorOf(m.type) = "getVideoData" -> "videos"
      [] AccessorOf(m.type) = "getTrendingVideos" -> "videos"
      [] AccessorOf(m.type) = "getVideoComments" -> "commentThreads"
      [] AccessorOf(m.type) = "getChannelData" -> "channels"
      [] AccessorOf(m.type) = "searchContent" -> "search"
      [] OTHER -> Null

ParamsOf(m) ==
    CASE AccessorOf(m.type) = "getVideoData" -> VideoParams(m.id)
      [] AccessorOf(m.type) = "getTrendingVideos" -> TrendingParams(m.id, m.category)
      [] AccessorOf(m.type) = "getVideoComments" ->
            \* request.maxResults || 50 in ANALYZE_COMMENTS, the default elsewhere
            CommentParams(m.id, IF m.type = "ANALYZE_COMMENTS" THEN AnalyzeMaxResults
                                                              ELSE DefaultMaxResults)
      [] AccessorOf(m.type) = "getChannelData" -> ChannelParams(m.id)
      [] AccessorOf(m.type) = "searchContent" ->
            SearchParams(m.id, m.category, DefaultMaxResults)
      [] OTHER -> << >>

KeyOf(m) == CacheKey(EndpointOf(m), ParamsOf(m))

CacheKeys == {KeyOf(m) : m \in {x \in AllMessages : x.type \in DataTypes} \cup Calls}

\* A payload is what upstream answered: the shape of its items and, as a ghost, the
\* credential of the URL it was fetched with.
ItemsKinds == {"some", "empty", "malformed"}

NoEntry == [present |-> FALSE, items |-> Null, cred |-> Null, timestamp |-> 0]
MkEntry(items, cred, t) == [present |-> TRUE, items |-> items, cred |-> cred, timestamp |-> t]

\* clearCache(): this.cache = {}
EmptyCache == [k \in CacheKeys |-> NoEntry]

\* (a check that tests for null only and lets the empty string through)
RequestPrecheckNullOnly(key) == IF key = Null THEN ErrKeyNotSet ELSE Null

\* if (!this.apiKey) throw new Error("YouTube API Key is not set. ..."): the error
\* request() throws before anything else, or Null.
RequestPrecheck(key) == IF ~Truthy(key) THEN ErrKeyNotSet ELSE Null

\* (parseInt(result.cacheTime) || 0) * 3600000
CacheTimeMs(stored) == stored * MsPerHour

\* (the freshness test with <= in place of <: an entry as old as the expiry is fresh)
CacheHitInclusive(c, key, cacheTimeMs, t) ==
    /\ cacheTimeMs > 0
    /\ c[key].present
    /\ t - c[key].timestamp <= cacheTimeMs

\* cacheTimeMs > 0 && this.cache[cacheKey] && (Date.now() - timestamp < cacheTimeMs)
CacheHit(c, key, cacheTimeMs, t) ==
    /\ cacheTimeMs > 0
    /\ c[key].present
    /\ t - c[key].timestamp < cacheTimeMs

\* (the store without its test of the expiry)
CacheStoreAlways(c, key, cacheTimeMs, items, cred, t) ==
    [c EXCEPT ![key] = MkEntry(items, cred, t)]

\* if (cacheTimeMs > 0) this.cache[cacheKey] = { data, timestamp: Date.now() }
CacheStore(c, key, cacheTimeMs, items, cred, t) ==
    IF cacheTimeMs > 0 THEN [c EXCEPT ![key] = MkEntry(items, cred, t)] ELSE c

\* What an accessor does with the payload request() returned: the value it returns,
\* or the error it throws.
Returns(value) == [ok |-> TRUE, value |-> value, error |-> Null]
Throws(msg) == [ok |-> FALSE, value |-> Null, error |-> msg]

\* (getVideoData without the test of items.length: items[0] of an empty list)
AccessorNoLengthTest(type, items) ==
    CASE AccessorOf(type) = "getVideoData" ->
            IF items # "empty" THEN Returns(items) ELSE Returns(Null)
      [] AccessorOf(type) = "getTrendingVideos" ->
            IF items # "empty" THEN Returns(items) ELSE Throws(ErrNoTrending)
      [] AccessorOf(type) = "getChannelData" ->
            IF items # "empty" THEN Returns(items) ELSE Throws(ErrChannelNotFound)
      [] AccessorOf(type) = "getVideoComments" ->
            IF items # "malformed" THEN Returns(items) ELSE Throws(ErrTypeError)
      [] AccessorOf(type) = "searchContent" ->
            IF items # "malformed" THEN Returns(items) ELSE Throws(ErrSearchTypeError)
      [] OTHER -> Throws(Null)

\* (every accessor throws for an empty list)
AccessorAllNotFound(type, items) ==
    CASE AccessorOf(type) = "getVideoData" ->
            IF items # "empty" THEN Returns(items) ELSE Throws(ErrVideoNotFound)
      [] AccessorOf(type) = "getTrendingVideos" ->
            IF items # "empty" THEN Returns(items) ELSE Throws(ErrNoTrending)
      [] AccessorOf(type) = "getChannelData" ->
            IF items # "empty" THEN Returns(items) ELSE Throws(ErrChannelNotFound)
      [] AccessorOf(type) = "getVideoComments" ->
            CASE items = "malformed" -> Throws(ErrTypeError)
              [] items = "empty" -> Throws(ErrVideoNotFound)
              [] OTHER -> Returns(items)
      [] AccessorOf(type) = "searchContent" ->
            CASE items = "malformed" -> Throws(ErrSearchTypeError)
              [] items = "empty" -> Throws(ErrVideoNotFound)
              [] OTHER -> Returns(items)
      [] OTHER -> Throws(Null)

Accessor(type, items) ==
    CASE AccessorOf(type) = "getVideoData" ->
            \* items[0] if items.length > 0
            IF items # "empty" THEN Returns(items) ELSE Throws(ErrVideoNotFound)
      [] AccessorOf(type) = "getTrendingVideos" ->
            IF items # "empty" THEN Returns(items) ELSE Throws(ErrNoTrending)
      [] AccessorOf(type) = "getChannelData" ->
            IF items # "empty" THEN Returns(items) ELSE Throws(ErrChannelNotFound)
      [] AccessorOf(type) = "getVideoComments" ->
            \* data.items.map(...): [] for no items
            IF items # "malformed" THEN Returns(items) ELSE Throws(ErrTypeError)
      [] AccessorOf(type) = "searchContent" ->
            IF items # "malformed" THEN Returns(items) ELSE Throws(ErrSearchTypeError)
      [] OTHER -> Throws(Null)

\* What the dataProcessor functions of an ANALYZE_* case make of the accessor's
\* value: ANALYZE_VIDEO_DATA reads videoData.snippet.title, which throws for an item
\* without snippet; the other functions answer such an item with an error field.
Metrics(type, value) ==
    IF type = "ANALYZE_VIDEO_DATA" /\ value = "malformed"
    THEN Throws(ErrTitleTypeError)
    ELSE Returns(value)

\* The function a GET_* or ANALYZE_* case passes to safeExecute.
Handled(type, items) ==
    LET out == Accessor(type, items)
    IN  IF type \in AnalyzeTypes /\ out.ok THEN Metrics(type, out.value) ELSE out

\* The failure a case sends when safeExecute hands it a falsy value.
ContextFailureOf(type) ==
    CASE type = "GET_VIDEO_DATA" -> ErrVideoContext
      [] type = "GET_TRENDING_VIDEOS" -> ErrTrendingContext
      [] type = "GET_VIDEO_COMMENTS" -> ErrCommentsContext
      [] type = "GET_CHANNEL_DATA" -> ErrChannelContext
      [] type = "ANALYZE_VIDEO_DATA" -> ErrAnalyzeVideoContext
      [] type = "ANALYZE_CHANNEL_DATA" -> ErrAnalyzeChannelContext
      [] type = "ANALYZE_COMMENTS" -> ErrAnalyzeCommentsContext
      [] OTHER -> Null

\* ---------------------------------------------------------------- responses
NoResponse == [success |-> FALSE, hasData |-> FALSE, items |-> Null, error |-> Null]
Success(items) == [success |-> TRUE, hasData |-> TRUE, items |-> items, error |-> Null]
\* (an acknowledgement that carries a data field)
AckWithData == [success |-> TRUE, hasData |-> TRUE, items |-> Null, error |-> Null]

Ack == [success |-> TRUE, hasData |-> FALSE, items |-> Null, error |-> Null]
Failure(msg) == [success |-> FALSE, hasData |-> FALSE, items |-> Null, error |-> msg]

\* A handleMessage invocation that is waiting at an await.
\* direct: the accessor was called by a module of the worker (dataProcessor), not by
\* handleMessage.
\* calls: the fetch calls request() has made for it.
IdleReq == [msg |-> NoMessage, pc |-> "idle", cacheTimeMs |-> 0, cred |-> Null,
            direct |-> FALSE, calls |-> 0, key |-> << >>, url |-> << >>]

Free(r) == req[r].pc = "idle"

\* Handler slots are interchangeable: a new invocation takes the lowest free one.
LowestFree(r) == Free(r) /\ \A q \in ReqIds : q < r => ~Free(q)

\* The latest event at the message channel, as the sender and the API see it (ghost):
\* the message, the sendResponse calls of its handler so far, the response, whether
\* request() went to the cache or upstream, and for a message without receiver
\* whether an initialization was in progress; the payload request() returned to the
\* accessor, how the HTTP call ended ("none" without one, "ok", or one of
\* HttpFailures), the number of fetch calls made, and how the chrome.storage call
\* ended ("none" without one, "ok", "rejected").
NoEvent == [kind |-> "none", msg |-> NoMessage, nresp |-> 0, resp |-> NoResponse,
            via |-> "none", initializing |-> FALSE, direct |-> FALSE,
            payload |-> Null, http |-> "none", calls |-> 0, storage |-> "none"]

\* The event of one handleMessage invocation, before any sendResponse.
Event(rec, via) ==
    [NoEvent EXCEPT !.kind = "handled", !.msg = rec.msg, !.via = via,
                    !.direct = rec.direct, !.calls = rec.calls,
                    !.storage = IF via = "none" THEN "none" ELSE "ok"]

\* sendResponse(response)
SendResponse(ev, response) ==
    [ev EXCEPT !.kind = "response", !.nresp = @ + 1, !.resp = response]

\* The end of an accessor call made without handleMessage: the value returned or the
\* error thrown goes to the caller, no response is sent.
Return(ev, response) ==
    [ev EXCEPT !.kind = IF response.success THEN "returned" ELSE "threw",
               !.resp = response]

\* ------------------------------------------------------- listener and timer
\* removeSafeMessageListener(): chrome.runtime.onMessage.removeListener runs inside
\* safeExecute, which skips it when the context is invalid; the fields are reset
\* either way. The result is <<messageHandler, isListenerActive, listeners>>.
RemoveSafeMessageListener(mh, active, n) ==
    IF mh
    THEN <<FALSE, FALSE, IF isExtensionContextValid THEN n - 1 ELSE n>>
    ELSE <<mh, active, n>>

\* (an addSafeMessageListener that does not remove the old listener first)
AddMessageListenerOnly(mh, active, n) ==
    IF isExtensionContextValid THEN <<TRUE, TRUE, n + 1>> ELSE <<mh, active, n>>

\* addSafeMessageListener(): remove the old listener, then add a new one if the
\* context is valid.
AddSafeMessageListener(mh, active, n) ==
    LET removed == RemoveSafeMessageListener(mh, active, n)
    IN  IF isExtensionContextValid
        THEN <<TRUE, TRUE, removed[3] + 1>>
        ELSE removed

\* cleanupInvalidContext()
cleanupInvalidContext ==
    LET removed == RemoveSafeMessageListener(messageHandler, isListenerActive, listeners)
    IN  /\ messageHandler' = removed[1]
        /\ isListenerActive' = removed[2]
        /\ listeners' = removed[3]
        /\ contextValidator' = FALSE
        /\ timers' = IF contextValidator THEN timers - 1 ELSE timers
        /\ isInitialized' = FALSE

\* The setInterval callback of setupContextValidation().
ValidatorTick ==
    /\ timers > 0
    /\ ~BasicChromeAvailable /\ isListenerActive
    /\ cleanupInvalidContext
    /\ UNCHANGED <<now, popup, dp, cv, ctx, storageVars, apiKey, cache, initializationAttempts,
                   lastInitAttemptTime, instance, initPending, req, last, delivered>>

\* ----------------------------------------------------------------- activate
\* (the guards without the limit on the number of attempts)
MayStartInitUnlimited ==
    /\ ~isInitialized
    /\ ~(now - lastInitAttemptTime < INIT_COOLDOWN_MS /\ lastInitAttemptTime # 0)

\* (the guards without the cooldown)
MayStartInitNoCooldown ==
    /\ ~isInitialized
    /\ initializationAttempts < MAX_INITIALIZATION_ATTEMPTS

\* The guards of the activate handler that let an initialization start.
MayStartInit ==
    /\ ~isInitialized
    /\ initializationAttempts < MAX_INITIALIZATION_ATTEMPTS
    /\ ~(now - lastInitAttemptTime < INIT_COOLDOWN_MS /\ lastInitAttemptTime # 0)

\* The activate event, up to the await of youTubeApiClient.init(). An event whose
\* guards return early changes nothing.
Activate ==
    /\ MayStartInit
    /\ initializationAttempts' = initializationAttempts + 1
    /\ lastInitAttemptTime' = now
    /\ IF BasicChromeAvailable
       THEN /\ instance' = TRUE
            /\ initPending' = initPending + 1
            /\ UNCHANGED isInitialized
       ELSE /\ isInitialized' = FALSE
            /\ UNCHANGED <<instance, initPending>>
    /\ UNCHANGED <<now, popup, dp, cv, ctx, storageVars, apiKey, cache, listenerVars, req, last, delivered>>

\* chrome.storage calls resolve only while the context is valid; they may reject at
\* any time (with "Extension context invalidated." once the context is invalid).
StorageAvailable == isExtensionContextValid
StorageError == IF isExtensionContextValid THEN ErrStorage ELSE ErrInvalidated

\* youTubeApiClient.init() resolved: the rest of init() and of the activate handler.
InitLoaded ==
    /\ initPending > 0
    /\ StorageAvailable
    /\ initPending' = initPending - 1
    /\ apiKey' = IF Truthy(storedKey) THEN storedKey ELSE Null
    /\ LET added == AddSafeMessageListener(messageHandler, isListenerActive, listeners)
       IN  /\ messageHandler' = added[1]
           /\ isListenerActive' = added[2]
           /\ listeners' = added[3]
    /\ contextValidator' = TRUE
    /\ timers' = IF contextValidator THEN timers ELSE timers + 1
    /\ isInitialized' = TRUE
    /\ UNCHANGED <<now, popup, dp, cv, ctx, storageVars, cache, initializationAttempts,
                   lastInitAttemptTime, instance, req, last, delivered>>

\* youTubeApiClient.init() rejected: init() rethrows, the activate handler catches.
InitFailed ==
    /\ initPending > 0
    /\ initPending' = initPending - 1
    /\ isInitialized' = FALSE
    /\ UNCHANGED <<now, popup, dp, cv, ctx, storageVars, apiKey, cache, initializationAttempts,
                   lastInitAttemptTime, instance, listenerVars, req, last, delivered>>

\* ------------------------------------------------------------ handleMessage
\* A message sent while no listener is registered has no receiver: the sender's
\* sendMessage fails with "Receiving end does not exist" and the worker never sees it.
SendNoReceiver(m) ==
    /\ listeners = 0
    /\ last' = [NoEvent EXCEPT !.kind = "noReceiver", !.msg = m,
                               !.initializing = initPending > 0]
    /\ UNCHANGED <<now, popup, dp, cv, ctx, storageVars, apiKey, cache, workerVars, listenerVars, req,
                   delivered>>

\* (the gates without the test of the credential)
GateErrorContextOnly == IF ~isExtensionContextValid THEN ErrContextInvalid ELSE Null

\* The two gates at the top of handleMessage: the response they send, or Null when
\* the message passes.
GateError ==
    IF ~isExtensionContextValid THEN ErrContextInvalid
    ELSE IF ~Truthy(apiKey) THEN ErrNotInitialized
    ELSE Null

\* (a catch block that logs the error and throws it again: handleMessage rejects)
OuterCatchRethrow(r, ev, msg) ==
    /\ last' = [ev EXCEPT !.kind = "rejected"]
    /\ req' = [req EXCEPT ![r] = IdleReq]
    /\ UNCHANGED <<listenerVars, isInitialized>>

\* (a catch block that logs the error and forgets to answer)
OuterCatchSilent(r, ev, msg) ==
    /\ last' = ev
    /\ req' = [req EXCEPT ![r] = IdleReq]
    /\ IF IsContextErrorMessage(msg)
       THEN cleanupInvalidContext
       ELSE UNCHANGED <<listenerVars, isInitialized>>

\* The outer catch of handleMessage: one failure response, and cleanupInvalidContext()
\* when the message looks like a lost context. An error of a call made without
\* handleMessage goes to the caller instead.
OuterCatch(r, ev, msg) ==
    /\ last' = IF ev.direct THEN Return(ev, Failure(msg))
                            ELSE SendResponse(ev, Failure(msg))
    /\ req' = [req EXCEPT ![r] = IdleReq]
    /\ IF IsContextErrorMessage(msg) /\ ~ev.direct
       THEN cleanupInvalidContext
       ELSE UNCHANGED <<listenerVars, isInitialized>>

\* The catch inside an ANALYZE_* case: one failure response, nothing else.
InnerCatch(r, ev, msg) ==
    /\ last' = SendResponse(ev, Failure(msg))
    /\ req' = [req EXCEPT ![r] = IdleReq]
    /\ UNCHANGED <<listenerVars, isInitialized>>

\* The catch an error of the API client or the dataProcessor reaches.
Catch(r, ev, msg) ==
    IF ev.msg.type \in AnalyzeTypes THEN InnerCatch(r, ev, msg) ELSE OuterCatch(r, ev, msg)

\* handleMessage(request, sender, sendResponse), from the call by chrome to the first
\* await that leaves the worker, or to its return.
Deliver(r, m) ==
    /\ LowestFree(r)
    /\ listeners > 0
    /\ delivered < MaxMsgs
    /\ delivered' = delivered + 1
    /\ LET rec == [IdleReq EXCEPT !.msg = m]
       IN  IF GateError # Null
           THEN /\ last' = SendResponse(Event(rec, "none"), Failure(GateError))
                /\ UNCHANGED <<apiKey, cache, req>>
           ELSE CASE m.type \in DataTypes /\ RequestPrecheck(apiKey) # Null ->
                       \* safeExecute -> accessor -> request() throws at once
                       /\ Catch(r, Event(rec, "none"), RequestPrecheck(apiKey))
                       /\ UNCHANGED <<apiKey, cache>>
                  [] m.type \in DataTypes /\ RequestPrecheck(apiKey) = Null ->
                       \* safeExecute -> accessor -> request(): await storage.get('cacheTime')
                       \* (request() has read this.apiKey for its first check)
                       /\ req' = [req EXCEPT ![r] = [rec EXCEPT !.pc = "awaitCacheTime",
                                                                !.cred = apiKey,
                                                                !.key = KeyOf(m)]]
                       /\ last' = Event(rec, "none")
                       /\ UNCHANGED <<apiKey, cache>>
                  [] m.type = "SAVE_API_KEY" ->
                       \* setApiKey(request.apiKey); await chrome.storage.sync.set(...)
                       /\ apiKey' = m.apiKey
                       /\ req' = [req EXCEPT ![r] = [rec EXCEPT !.pc = "awaitStorageSet"]]
                       /\ last' = Event(rec, "none")
                       /\ UNCHANGED cache
                  [] m.type = "CLEAR_CACHE" ->
                       /\ cache' = EmptyCache
                       /\ last' = SendResponse(Event(rec, "none"), Ack)
                       /\ UNCHANGED <<apiKey, req>>
                  [] OTHER ->
                       /\ last' = SendResponse(Event(rec, "none"), Failure(ErrUnknownType))
                       /\ UNCHANGED <<apiKey, cache, req>>
    /\ UNCHANGED <<now, popup, dp, cv, ctx, storageVars, workerVars, listenerVars>>

\* A module of the worker calls an accessor of the API client: request() up to its
\* first await.
ClientCall(r, m) ==
    /\ LowestFree(r)
    /\ delivered < MaxMsgs
    /\ delivered' = delivered + 1
    /\ LET rec == [IdleReq EXCEPT !.msg = m, !.direct = TRUE]
       IN  IF RequestPrecheck(apiKey) # Null
           THEN /\ last' = Return(Event(rec, "none"), Failure(RequestPrecheck(apiKey)))
                /\ UNCHANGED req
           ELSE /\ req' = [req EXCEPT ![r] = [rec EXCEPT !.pc = "awaitCacheTime",
                                                        !.cred = apiKey,
                                                        !.key = KeyOf(m)]]
                /\ last' = Event(rec, "none")
    /\ UNCHANGED <<now, popup, dp, cv, ctx, storageVars, apiKey, cache, workerVars, listenerVars>>

\* The accessor's (and the dataProcessor's) use of the payload request() returned,
\* and the sendResponse of the GET_* and ANALYZE_* cases.
Finish(r, ev, items) ==
    LET out == Handled(ev.msg.type, items)
        got == [ev EXCEPT !.payload = items]
    IN  IF out.ok
        THEN /\ last' = CASE ev.direct -> Return(got, Success(out.value))
                          [] Truthy(out.value) -> SendResponse(got, Success(out.value))
                          [] OTHER ->
                               SendResponse(got, Failure(ContextFailureOf(ev.msg.type)))
             /\ req' = [req EXCEPT ![r] = IdleReq]
             /\ UNCHANGED <<listenerVars, isInitialized>>
        ELSE Catch(r, got, out.error)

\* request(): storage.get('cacheTime') resolved; the cache check, and on a miss the
\* fetch of the full URL.
CacheTimeRead(r) ==
    /\ req[r].pc = "awaitCacheTime"
    /\ StorageAvailable
    /\ LET ms == CacheTimeMs(cacheTime)
           key == req[r].key
           rec == [req[r] EXCEPT !.cacheTimeMs = ms, !.cred = apiKey]
       IN  IF CacheHit(cache, key, ms, now)
           THEN Finish(r, Event(rec, "cache"), cache[key].items)
           ELSE /\ req' = [req EXCEPT ![r] = [rec EXCEPT !.pc = "fetching",
                                                        !.calls = @ + 1,
                                                        !.url = FullUrl(key, apiKey)]]
                /\ last' = Event([rec EXCEPT !.calls = @ + 1], "upstream")
                /\ UNCHANGED <<listenerVars, isInitialized>>
    /\ UNCHANGED <<now, popup, dp, cv, ctx, storageVars, apiKey, cache, initializationAttempts,
                   lastInitAttemptTime, instance, initPending, delivered>>

\* request(): storage.get('cacheTime') rejected.
CacheTimeFailed(r) ==
    /\ req[r].pc = "awaitCacheTime"
    /\ Catch(r, [Event(req[r], "none") EXCEPT !.storage = "rejected"], StorageError)
    /\ UNCHANGED <<now, popup, dp, cv, ctx, storageVars, apiKey, cache, initializationAttempts,
                   lastInitAttemptTime, instance, initPending, delivered>>

\* request(): fetch resolved with a 2xx response whose body parsed.
FetchOk(r, items) ==
    /\ req[r].pc = "fetching"
    /\ cache' = CacheStore(cache, req[r].key, req[r].cacheTimeMs, items,
                           req[r].cred, now)
    /\ Finish(r, [Event(req[r], "upstream") EXCEPT !.http = "ok"], items)
    /\ UNCHANGED <<now, popup, dp, cv, ctx, storageVars, apiKey, initializationAttempts,
                   lastInitAttemptTime, instance, initPending, delivered>>

\* The ways the HTTP call fails: a non-2xx response whose body is {error:{message}}
\* ("structured"), one whose body is JSON without an error field ("status"), one
\* whose body is not JSON ("notJson"), or no response at all ("network").
HttpFailures == {"structured", "status", "notJson", "network"}

\* The message of the error request() throws for a failed HTTP call:
\* errorData = await response.json() rejects for a body that is not JSON, then
\* errorData.error ? errorData.error.message : `API request failed with status: ...`;
\* a rejected fetch is rethrown as it is.
RequestError(outcome) ==
    CASE outcome = "structured" -> ErrUpstream
      [] outcome = "status" -> ErrStatus
      [] outcome = "notJson" -> ErrJson
      [] OTHER -> ErrNetwork

FetchErrors == {RequestError(o) : o \in HttpFailures}

\* (a request() that drops the entry of its key when the HTTP call fails)
FetchFailedEvict(r, outcome) ==
    /\ req[r].pc = "fetching"
    /\ Catch(r, [Event(req[r], "upstream") EXCEPT !.http = outcome],
                  RequestError(outcome))
    /\ cache' = [cache EXCEPT ![req[r].key] = NoEntry]
    /\ UNCHANGED <<now, popup, dp, cv, ctx, storageVars, apiKey, initializationAttempts,
                   lastInitAttemptTime, instance, initPending, delivered>>

\* (a request() that fetches once more after a first failure)
FetchFailedRetry(r, outcome) ==
    /\ req[r].pc = "fetching"
    /\ IF req[r].calls < 2
       THEN /\ req' = [req EXCEPT ![r].calls = @ + 1]
            /\ last' = [Event([req[r] EXCEPT !.calls = @ + 1], "upstream")
                           EXCEPT !.http = outcome]
            /\ UNCHANGED <<listenerVars, isInitialized>>
       ELSE Catch(r, [Event(req[r], "upstream") EXCEPT !.http = outcome],
                     RequestError(outcome))
    /\ UNCHANGED <<now, popup, dp, cv, ctx, storageVars, apiKey, cache, initializationAttempts,
                   lastInitAttemptTime, instance, initPending, delivered>>

\* request(): the HTTP call failed.
FetchFailed(r, outcome) ==
    /\ req[r].pc = "fetching"
    /\ Catch(r, [Event(req[r], "upstream") EXCEPT !.http = outcome],
                  RequestError(outcome))
    /\ UNCHANGED <<now, popup, dp, cv, ctx, storageVars, apiKey, cache, initializationAttempts,
                   lastInitAttemptTime, instance, initPending, delivered>>

\* What chrome.storage.sync keeps of a key written to it, as its only reader
\* (result.youtubeApiKey || null) sees it.
Stored(k) == IF Truthy(k) THEN k ELSE Null

\* SAVE_API_KEY: chrome.storage.sync.set resolved; clearCache() and the acknowledgement.
StorageSetDone(r) ==
    /\ req[r].pc = "awaitStorageSet"
    /\ StorageAvailable
    /\ storedKey' = Stored(req[r].msg.apiKey)
    /\ cache' = EmptyCache
    /\ last' = SendResponse([Event(req[r], "none") EXCEPT !.storage = "ok"], Ack)
    /\ req' = [req EXCEPT ![r] = IdleReq]
    /\ UNCHANGED <<now, popup, dp, cv, ctx, cacheTime, apiKey, workerVars, listenerVars, delivered>>

\* SAVE_API_KEY: chrome.storage.sync.set rejected; the inner catch answers.
StorageSetFailed(r) ==
    /\ req[r].pc = "awaitStorageSet"
    /\ last' = SendResponse([Event(req[r], "none") EXCEPT !.storage = "rejected"],
                            Failure(StorageError))
    /\ req' = [req EXCEPT ![r] = IdleReq]
    /\ UNCHANGED <<now, popup, dp, cv, ctx, storageVars, apiKey, cache, workerVars, listenerVars,
                   delivered>>

\* -------------------------------------------------------------- environment
\* Time passes, d milliseconds at a time, at most n times.
Tick(d, n) ==
    /\ now + d <= MsPerHour + n * d
    /\ now' = now + d
    /\ UNCHANGED <<ctx, storageVars, apiKey, cache, workerVars, listenerVars, req, last,
                   delivered, popup, dp, cv>>

\* The extension is reloaded, updated or disabled: the context of this worker is
\* invalidated for good.
ContextLost(c) ==
    /\ ctx = "valid"
    /\ ctx' = c
    /\ UNCHANGED <<now, popup, dp, cv, storageVars, apiKey, cache, workerVars, listenerVars, req, last, delivered>>

\* The options page writes the settings to chrome.storage.sync (saveSettings), or
\* clears them (resetSettings).
OptionsStore(k, hours) ==
    /\ storedKey' = Stored(k)
    /\ cacheTime' = hours
    /\ UNCHANGED <<now, popup, dp, cv, ctx, apiKey, cache, workerVars, listenerVars, req, last, delivered>>

\* ------------------------------------------------ popup: sendMessageWithRetry
\* Delays are counted in 1/32 ms, so that delay * 1.5 stays a whole number.
DelayScale == 32
DefaultDelay == DefaultDelayMs * DelayScale
MaxDelay == MaxDelayMs * DelayScale

Min(a, b) == IF a < b THEN a ELSE b

\* Error messages as lists of parts; includes() finds a part.
ReceivingEnd == "Receiving end does not exist"
ErrNoReceiver == <<"Could not establish connection. ", ReceivingEnd, ".">>
ErrPortClosed == <<"The message port closed before a response was received.">>
ErrNoRuntime == <<"extension context invalid, reload the extension">>
ErrUndefinedResponse == <<"no response from the background">>
Includes(msg, part) == \E i \in 1..Len(msg) : msg[i] = part

\* What one attempt can come to: chrome.runtime is missing, or sendMessage resolves
\* with a response, resolves with undefined, rejects for want of a receiver, or
\* rejects otherwise.
SendOutcomes == {"response", "undefined", "noReceiver", "portClosed"}
AttemptOutcomes == SendOutcomes \cup {"noRuntime"}

\* The error the catch block of an attempt sees.
AttemptError(outcome) ==
    CASE outcome = "noRuntime" -> ErrNoRuntime
      [] outcome = "undefined" -> ErrUndefinedResponse
      [] outcome = "noReceiver" -> ErrNoReceiver
      [] OTHER -> ErrPortClosed

\* The responses the worker sends to the popup's GET_VIDEO_DATA.
PopupResponses == {Success("some"), Failure(ErrNotInitialized)}

IdlePopup == [pc |-> "idle", maxRetries |-> 0, attempt |-> 0, delay |-> 0,
              outcomes |-> <<>>, waits |-> <<>>, result |-> Null]

\* (a catch block that retries after every error)
ShouldRetryAnyError(error, attempt, maxRetries) == attempt < maxRetries

\* The catch block: wait and continue, or throw.
ShouldRetry(error, attempt, maxRetries) ==
    Includes(error, ReceivingEnd) /\ attempt < maxRetries

\* delay = Math.min(delay * 1.5, 3000)
NextDelay(delay) == Min((delay * 3) \div 2, MaxDelay)

backgroundVars == <<now, ctx, storageVars, apiKey, cache, workerVars, listenerVars, req,
                    last, delivered>>

\* The catch block of the attempt that ended with outcome.
AttemptFailed(p, outcome) ==
    LET q == [p EXCEPT !.outcomes = Append(@, outcome)]
    IN  IF ShouldRetry(AttemptError(outcome), p.attempt, p.maxRetries)
        THEN [q EXCEPT !.pc = "waiting", !.waits = Append(@, p.delay)]
        ELSE [q EXCEPT !.pc = "threw", !.result = Throws(AttemptError(outcome))]

\* The start of an attempt: the test of chrome.runtime and the sendMessage call.
Attempt(p, runtime) ==
    IF runtime THEN [p EXCEPT !.pc = "sending"] ELSE AttemptFailed(p, "noRuntime")

\* sendMessageWithRetry(message, maxRetries) is called: the first attempt starts.
SendMessageWithRetry(maxRetries, runtime) ==
    /\ popup.pc = "idle"
    /\ popup' = Attempt([IdlePopup EXCEPT !.maxRetries = maxRetries,
                                          !.delay = DefaultDelay], runtime)
    /\ UNCHANGED <<backgroundVars, dp, cv>>

\* chrome.runtime.sendMessage settled.
SendSettled(outcome, response) ==
    /\ popup.pc = "sending"
    /\ popup' = IF outcome = "response"
                THEN [popup EXCEPT !.pc = "returned", !.outcomes = Append(@, outcome),
                                   !.result = Returns(response)]
                ELSE AttemptFailed(popup, outcome)
    /\ UNCHANGED <<backgroundVars, dp, cv>>

\* The setTimeout of the wait fired: the delay grows and the next attempt starts.
WaitDone(runtime) ==
    /\ popup.pc = "waiting"
    /\ popup' = Attempt([popup EXCEPT !.delay = NextDelay(@), !.attempt = @ + 1], runtime)
    /\ UNCHANGED <<backgroundVars, dp, cv>>

\* ------------------------------------------------------------ dataProcessor
\* An optional value (a field that may be absent, an argument that may be null) is a
\* list of no or one element.
Absent == << >>
Given(x) == <<x>>
Has(opt) == Len(opt) > 0
The(opt) == opt[1]

\* parseInt(x) || 0 of a statistics field: the field holds the decimal digits of a
\* count, or is absent or not a number (written -1), which parseInt turns into NaN.
ParseIntOrZero(x) == IF x < 0 THEN 0 ELSE x

\* num / den * 100 > tn / td, with the ratio 0 when den is 0 (viewCount > 0 ? ... : 0).
RatioOver(num, den, tn, td) == den > 0 /\ num * 100 * td > tn * den

\* The sub-score of likeViewRatio (at most 40).
LikeScore(likeCount, viewCount) ==
    CASE RatioOver(likeCount, viewCount, 15, 1) -> 40
      [] RatioOver(likeCount, viewCount, 10, 1) -> 35
      [] RatioOver(likeCount, viewCount, 5, 1) -> 30
      [] RatioOver(likeCount, viewCount, 3, 1) -> 25
      [] RatioOver(likeCount, viewCount, 1, 1) -> 20
      [] RatioOver(likeCount, viewCount, 1, 2) -> 15
      [] RatioOver(likeCount, viewCount, 1, 10) -> 10
      [] OTHER -> 5

\* The sub-score of commentViewRatio (at most 30).
CommentScore(commentCount, viewCount) ==
    CASE RatioOver(commentCount, viewCount, 1, 1) -> 30
      [] RatioOver(commentCount, viewCount, 1, 2) -> 25
      [] RatioOver(commentCount, viewCount, 3, 10) -> 20
      [] RatioOver(commentCount, viewCount, 1, 10) -> 15
      [] RatioOver(commentCount, viewCount, 1, 20) -> 10
      [] OTHER -> 5

\* The sub-score of viewCount (at most 30).
ViewScore(viewCount) ==
    CASE viewCount > 1000000 -> 30
      [] viewCount > 500000 -> 27
      [] viewCount > 100000 -> 24
      [] viewCount > 50000 -> 21
      [] viewCount > 10000 -> 18
      [] viewCount > 5000 -> 15
      [] viewCount > 1000 -> 12
      [] viewCount > 500 -> 9
      [] viewCount > 100 -> 6
      [] OTHER -> 3

\* (a score built from the two ratios only)
PerformanceScoreOfRatios(likeCount, commentCount, viewCount) ==
    Min(100, LikeScore(likeCount, viewCount) + CommentScore(commentCount, viewCount))

\* performanceScore: Math.min(100, Math.round(the sum of the three sub-scores))
PerformanceScore(likeCount, commentCount, viewCount) ==
    Min(100, LikeScore(likeCount, viewCount) + CommentScore(commentCount, viewCount)
             + ViewScore(viewCount))

ErrInvalidVideoData == "invalid video data"
ErrSnippetTypeError == "Cannot read properties of undefined (reading 'publishedAt')"

\* calculateVideoKPIs(videoData): videoData is null or an object whose statistics
\* and snippet may be absent; age is now - publishedAt in milliseconds. (The ratios
\* and dailyViewCount of the result, rounded to two decimals, are left out.)
calculateVideoKPIs(videoData) ==
    IF ~Has(videoData) \/ ~Has(The(videoData).statistics)
    THEN Returns([error |-> ErrInvalidVideoData])
    ELSE LET stats == The(The(videoData).statistics)
             viewCount == ParseIntOrZero(stats.viewCount)
             likeCount == ParseIntOrZero(stats.likeCount)
             commentCount == ParseIntOrZero(stats.commentCount)
         IN  IF ~Has(The(videoData).snippet)
             THEN Throws(ErrSnippetTypeError)
             ELSE Returns([error |-> Null, viewCount |-> viewCount,
                           likeCount |-> likeCount, commentCount |-> commentCount,
                           daysSincePublished |->
                               The(The(videoData).snippet).age \div MsPerDay,
                           performanceScore |->
                               PerformanceScore(likeCount, commentCount, viewCount)])

\* The statistics, snippets and videos the functions are given.
ViewCounts == {-1, 0, 1, 100, 101, 500, 501, 1000, 1001, 5000, 5001, 10000, 10001, 50000,
               50001, 100000, 100001, 500000, 500001, 1000000, 1000001}
LikeCounts == {-1, 0, 1, 2, 16, 151, 200000}
CommentCounts == {-1, 0, 1, 2, 6, 1000, 500000}
Ages == {0, MsPerDay - 1, 7 * MsPerDay}
Videos ==
    {Absent} \cup
    {Given([statistics |-> st, snippet |-> sn]) :
        st \in {Absent} \cup {Given([viewCount |-> v, likeCount |-> l, commentCount |-> c]) :
                                 v \in ViewCounts, l \in LikeCounts, c \in CommentCounts},
        sn \in {Absent} \cup {Given([age |-> a]) : a \in Ages}}

\* Two positive words and one negative word of sentimentDictionary; a text is the
\* list of its words, the empty list for an empty or absent text.
PositiveWords == {"good", "love"}
NegativeWords == {"bad"}
Texts == {<< >>, <<"good">>, <<"bad">>, <<"video">>, <<"love", "bad", "good">>}

\* positiveScore / negativeScore: the words of the dictionary the text includes.
WordScore(text, words) == Cardinality({w \in words : Includes(text, w)})

\* The sentiment of a comment with a text.
SentimentOf(text) ==
    CASE WordScore(text, PositiveWords) > WordScore(text, NegativeWords) -> "positive"
      [] WordScore(text, NegativeWords) > WordScore(text, PositiveWords) -> "negative"
      [] OTHER -> "neutral"

\* comments.map(...).filter(Boolean): the comments with a text.
Analyzed(comments) == SelectSeq(comments, LAMBDA c : Len(c.text) > 0)

\* positiveCount, negativeCount, neutralCount
SentimentCount(comments, sentiment) ==
    Cardinality({i \in 1..Len(Analyzed(comments)) :
                    SentimentOf(Analyzed(comments)[i].text) = sentiment})

\* parseFloat((count / commentCount * 100).toFixed(2)), in hundredths of a percent;
\* 0 / 0 is NaN.
NaN == "NaN"
RoundDiv(a, b) == (2 * a + b) \div (2 * b)
Percentage(count, commentCount) ==
    IF commentCount = 0 THEN NaN ELSE RoundDiv(count * 10000, commentCount)

ErrNoComments == "no comment data"

\* analyzeCommentSentiment(comments): comments is null or a list. (The result also
\* carries the three counts, which the code keeps in local variables.)
analyzeCommentSentiment(comments) ==
    IF ~Has(comments) \/ Len(The(comments)) = 0
    THEN Returns([error |-> ErrNoComments, commentCount |-> 0,
                  counts |-> [positive |-> 0, neutral |-> 0, negative |-> 0],
                  sentimentDistribution |-> [positive |-> 0, neutral |-> 0,
                                             negative |-> 0]])
    ELSE LET list == The(comments)
             commentCount == Len(Analyzed(list))
             counts == [s \in {"positive", "neutral", "negative"} |->
                           SentimentCount(list, s)]
         IN  Returns([error |-> Null, commentCount |-> commentCount,
                      counts |-> counts,
                      sentimentDistribution |->
                          [s \in {"positive", "neutral", "negative"} |->
                              Percentage(counts[s], commentCount)]])

CommentLists ==
    {Absent} \cup
    {Given(l) : l \in UNION {[1..n -> {[text |-> t] : t \in Texts}] : n \in 0..MaxComments}}

NoCall == [fn |-> "none", arg |-> Absent, done |-> FALSE, out |-> Absent]

\* calculateVideoKPIs is called with the argument drawn at the start.
CallCalculateVideoKPIs ==
    /\ dp.fn = "calculateVideoKPIs" /\ ~dp.done
    /\ dp' = [dp EXCEPT !.done = TRUE, !.out = calculateVideoKPIs(dp.arg)]
    /\ UNCHANGED <<backgroundVars, popup, cv>>

\* analyzeCommentSentiment is called with the argument drawn at the start.
CallAnalyzeCommentSentiment ==
    /\ dp.fn = "analyzeCommentSentiment" /\ ~dp.done
    /\ dp' = [dp EXCEPT !.done = TRUE, !.out = analyzeCommentSentiment(dp.arg)]
    /\ UNCHANGED <<backgroundVars, popup, cv>>

\* ------------------------------------- contextUtils.createContextValidator
\* valid is what isExtensionContextValid() returns at this moment; readings are its
\* values at the creation and at each poll, called and threw tell for each poll
\* whether invalidCallback ran and whether it threw (history).
NoValidator == [created |-> FALSE, valid |-> TRUE, previousState |-> TRUE,
                readings |-> << >>, called |-> << >>, threw |-> << >>]

\* (a validator that calls back at every poll that finds the context invalid)
InvalidLevel(previousState, currentState) == ~currentState

\* previousState && !currentState
InvalidEdge(previousState, currentState) == previousState /\ ~currentState

\* createContextValidator(invalidCallback, intervalMs)
CreateContextValidator ==
    /\ ~cv.created
    /\ cv' = [cv EXCEPT !.created = TRUE, !.previousState = cv.valid,
                        !.readings = <<cv.valid>>]
    /\ UNCHANGED <<backgroundVars, popup, dp>>

\* The setInterval callback: invalidCallback runs inside try/catch when the state
\* went from valid to invalid; throws tells whether it throws.
ValidatorPoll(throws) ==
    /\ cv.created
    /\ Len(cv.called) < MaxPolls
    /\ LET currentState == cv.valid
           calls == InvalidEdge(cv.previousState, currentState)
       IN  cv' = [cv EXCEPT !.previousState = currentState,
                            !.readings = Append(@, currentState),
                            !.called = Append(@, calls),
                            !.threw = Append(@, calls /\ throws)]
    /\ UNCHANGED <<backgroundVars, popup, dp>>

\* The extension context of the component becomes invalid, or is found valid again.
ValidityChanges ==
    /\ cv.created
    /\ Len(cv.called) < MaxPolls
    /\ cv' = [cv EXCEPT !.valid = ~@]
    /\ UNCHANGED <<backgroundVars, popup, dp>>

InitBackground ==
    /\ now = MsPerHour
    /\ ctx = "valid"
    /\ storedKey \in {Null, "K1"}
    /\ cacheTime \in 0..MaxCacheTime
    /\ apiKey = Null
    /\ cache = EmptyCache
    /\ isInitialized = FALSE
    /\ initializationAttempts = 0
    /\ lastInitAttemptTime = 0
    /\ instance = FALSE
    /\ initPending = 0
    /\ messageHandler = FALSE
    /\ isListenerActive = FALSE
    /\ contextValidator = FALSE
    /\ listeners = 0
    /\ timers = 0
    /\ req = [r \in ReqIds |-> IdleReq]
    /\ last = NoEvent
    /\ delivered = 0
    /\ popup = IdlePopup

Init == InitBackground /\ dp = NoCall /\ cv = NoValidator

\* A component about to create its validator, its context valid or not.
InitValidator ==
    /\ InitBackground /\ storedKey = Null /\ cacheTime = 0
    /\ dp = NoCall
    /\ \E v \in BOOLEAN : cv = [NoValidator EXCEPT !.valid = v]

\* The dataProcessor before a call, with the argument of the call.
InitData ==
    /\ InitBackground /\ storedKey = Null /\ cacheTime = 0
    /\ cv = NoValidator
    /\ \/ \E v \in Videos : dp = [NoCall EXCEPT !.fn = "calculateVideoKPIs", !.arg = v]
       \/ \E c \in CommentLists :
             dp = [NoCall EXCEPT !.fn = "analyzeCommentSentiment", !.arg = c]

\* The messages of each kind.
OfType(types) == {m \in Messages : m.type \in types}

\* The response cache of the API client, behind a worker whose context stays valid
\* and whose initialization succeeds: data requests and CLEAR_CACHE, upstream
\* answers and failures, the clock, and the options page changing cacheTime.
NextCache ==
    \/ Activate
    \/ InitLoaded
    \/ \E r \in ReqIds, m \in OfType({"GET_VIDEO_DATA", "GET_TRENDING_VIDEOS", "CLEAR_CACHE"}) :
            Deliver(r, m)
    \/ \E r \in ReqIds : CacheTimeRead(r)
    \/ \E r \in ReqIds, items \in {"some", "empty"} : FetchOk(r, items)
    \/ \E r \in ReqIds : FetchFailed(r, "status")
    \/ Tick(MsPerHour \div 2, MaxTicks)
    \/ \E hours \in 0..MaxCacheTime : OptionsStore(storedKey, hours)

SpecCache == Init /\ [][NextCache]_vars

\* The credential: a worker whose context stays valid, SAVE_API_KEY and
\* GET_VIDEO_DATA messages, storage writes that succeed or fail, and the options
\* page writing the key to storage.
NextKey ==
    \/ Activate
    \/ InitLoaded
    \/ \E r \in ReqIds, m \in OfType({"GET_VIDEO_DATA", "SAVE_API_KEY"}) : Deliver(r, m)
    \/ \E r \in ReqIds : CacheTimeRead(r)
    \/ \E r \in ReqIds : FetchOk(r, "some")
    \/ \E r \in ReqIds : StorageSetDone(r)
    \/ \E r \in ReqIds : StorageSetFailed(r)
    \/ \E k \in Credentials \cup {Null} : OptionsStore(k, cacheTime)

SpecKey == Init /\ [][NextKey]_vars

\* The life cycle of the worker: activations, initializations that succeed or fail,
\* the context being lost, the validator, messages with and without a receiver.
NextWorker ==
    \/ Activate
    \/ InitLoaded
    \/ InitFailed
    \/ ValidatorTick
    \/ \E m \in OfType({"GET_VIDEO_COMMENTS"}) : SendNoReceiver(m)
    \/ \E r \in ReqIds, m \in OfType({"GET_VIDEO_COMMENTS", "PING"}) : Deliver(r, m)
    \/ \E r \in ReqIds : CacheTimeRead(r)
    \/ \E r \in ReqIds : CacheTimeFailed(r)
    \/ \E r \in ReqIds, items \in {"some", "malformed"} : FetchOk(r, items)
    \/ \E r \in ReqIds : FetchFailed(r, "network")
    \/ Tick(INIT_COOLDOWN_MS, MaxCooldowns)
    \/ \E c \in {"noId", "gone"} : ContextLost(c)

SpecWorker == Init /\ [][NextWorker]_vars

\* The API client called without handleMessage, with every shape of payload, while
\* SAVE_API_KEY messages set and empty the credential.
NextClient ==
    \/ Activate
    \/ InitLoaded
    \/ \E r \in ReqIds, m \in Calls : ClientCall(r, m)
    \/ \E r \in ReqIds, m \in OfType({"SAVE_API_KEY"}) : m.apiKey # "K2" /\ Deliver(r, m)
    \/ \E r \in ReqIds : CacheTimeRead(r)
    \/ \E r \in ReqIds, items \in ItemsKinds : FetchOk(r, items)
    \/ \E r \in ReqIds, o \in HttpFailures : FetchFailed(r, o)
    \/ \E r \in ReqIds : StorageSetDone(r)
    \/ \E r \in ReqIds : StorageSetFailed(r)

SpecClient == Init /\ [][NextClient]_vars

\* The message router with its nine request kinds and an unknown one, and every
\* outcome of the storage and HTTP calls, in a worker that has loaded its key.
NextRouter ==
    \/ Activate
    \/ InitLoaded
    \/ \E r \in ReqIds, m \in AllMessages : m.apiKey # "K2" /\ Deliver(r, m)
    \/ \E r \in ReqIds : CacheTimeRead(r)
    \/ \E r \in ReqIds : CacheTimeFailed(r)
    \/ \E r \in ReqIds, items \in ItemsKinds : FetchOk(r, items)
    \/ \E r \in ReqIds, o \in HttpFailures : FetchFailed(r, o)
    \/ \E r \in ReqIds : StorageSetDone(r)
    \/ \E r \in ReqIds : StorageSetFailed(r)
    \/ ContextLost("noId")

SpecRouter == Init /\ [][NextRouter]_vars

\* One call of sendMessageWithRetry by the popup, with every outcome of every
\* attempt; the sendMessage promise settles and the timer of a wait fires.
NextRetry ==
    \/ \E n \in 0..MaxRetries, runtime \in BOOLEAN : SendMessageWithRetry(n, runtime)
    \/ \E o \in SendOutcomes, resp \in PopupResponses : SendSettled(o, resp)
    \/ \E runtime \in BOOLEAN : WaitDone(runtime)

SpecRetry ==
    /\ Init /\ [][NextRetry]_vars
    /\ WF_vars(\E o \in SendOutcomes, resp \in PopupResponses : SendSettled(o, resp))
    /\ WF_vars(\E runtime \in BOOLEAN : WaitDone(runtime))

\* The cache over time: requests for one video through handleMessage and directly,
\* with and without a credential, CLEAR_CACHE, SAVE_API_KEY and an unknown request,
\* upstream answers and failures, and the clock.
NextFrame ==
    \/ Activate
    \/ InitLoaded
    \/ \E r \in ReqIds, m \in OfType({"GET_VIDEO_DATA", "CLEAR_CACHE", "PING", "SAVE_API_KEY"}) :
            m.apiKey \in {Null, "K1"} /\ Deliver(r, m)
    \/ \E r \in ReqIds, m \in {c \in Calls : c.type = "getVideoData"} : ClientCall(r, m)
    \/ \E r \in ReqIds : CacheTimeRead(r)
    \/ \E r \in ReqIds : FetchOk(r, "some")
    \/ \E r \in ReqIds, o \in {"status", "network"} : FetchFailed(r, o)
    \/ \E r \in ReqIds : StorageSetDone(r)
    \/ Tick(MsPerHour \div 2, MaxTicks)

SpecFrame == Init /\ [][NextFrame]_vars

\* A validator, its polls, and the context changing between them.
NextValidator ==
    \/ CreateContextValidator
    \/ \E throws \in BOOLEAN : ValidatorPoll(throws)
    \/ ValidityChanges

SpecValidator == InitValidator /\ [][NextValidator]_vars

\* One call of a dataProcessor function, for each of its arguments.
NextData ==
    \/ CallCalculateVideoKPIs
    \/ CallAnalyzeCommentSentiment

SpecData == InitData /\ [][NextData]_vars

\* Every kind of message and every outcome of every await, at one instant.
Next ==
    \/ Activate
    \/ InitLoaded
    \/ InitFailed
    \/ ValidatorTick
    \/ \E m \in Messages : SendNoReceiver(m)
    \/ \E r \in ReqIds, m \in Messages : Deliver(r, m)
    \/ \E r \in ReqIds : CacheTimeRead(r)
    \/ \E r \in ReqIds : CacheTimeFailed(r)
    \/ \E r \in ReqIds, items \in ItemsKinds : FetchOk(r, items)
    \/ \E r \in ReqIds, o \in HttpFailures : FetchFailed(r, o)
    \/ \E r \in ReqIds : StorageSetDone(r)
    \/ \E r \in ReqIds : StorageSetFailed(r)
    \/ \E c \in {"noId", "gone"} : ContextLost(c)

Spec == Init /\ [][Next]_vars

\* A pending chrome.storage call or fetch of handler r settles.
Settles(r) ==
    \/ CacheTimeRead(r)
    \/ CacheTimeFailed(r)
    \/ \E items \in ItemsKinds : FetchOk(r, items)
    \/ \E o \in HttpFailures : FetchFailed(r, o)
    \/ StorageSetDone(r)
    \/ StorageSetFailed(r)

\* Storage calls and upstream calls eventually complete.
FairSpec == Spec /\ \A r \in ReqIds : WF_vars(Settles(r))

\* ==================================================================== claims
\* The request() call of handler r got its cacheTime from storage in this step.
ConsultsCache(r) ==
    req[r].pc = "awaitCacheTime" /\ req'[r].pc # "awaitCacheTime" /\ last'.via # "none"

\* request() of handler r returned in this step with the payload of the cache.
ReturnsCached(r) == req'[r].pc = "idle" /\ last'.kind = "response" /\ last'.via = "cache"

\* request() of handler r issued its upstream HTTP call in this step.
GoesUpstream(r) == req'[r].pc = "fetching" /\ last'.via = "upstream"

\* The cache holds an entry for the descriptor of m that is younger than e milliseconds.
FreshEntry(m, e) == cache[KeyOf(m)].present /\ now - cache[KeyOf(m)].timestamp < e

\* C1: with a configured expiry E > 0, request() returns the cached payload without
\* an upstream call exactly when an entry for the same descriptor exists whose age
\* is strictly less than E; otherwise it goes upstream.
C1_CachedIffFresh ==
    [][\A r \in ReqIds :
          (ConsultsCache(r) /\ cacheTime > 0) =>
              /\ ReturnsCached(r) <=> FreshEntry(req[r].msg, cacheTime * MsPerHour)
              /\ GoesUpstream(r) <=> ~FreshEntry(req[r].msg, cacheTime * MsPerHour)
              /\ ReturnsCached(r) =>
                    (last'.resp.success => last'.resp.items = cache[KeyOf(req[r].msg)].items)]_vars

\* C1 witness: a response served from an entry that is older than 0 and younger than
\* the expiry.
C1_Witness ==
    /\ last.kind = "response" /\ last.via = "cache" /\ last.resp.success
    /\ cache[KeyOf(last.msg)].present
    /\ cache[KeyOf(last.msg)].timestamp < now

\* C2: with expiry 0, request() never returns a cached payload, whatever the cache
\* holds, and never inserts: it goes upstream and leaves the cache unchanged.
C2_ExpiryZeroBypassesCache ==
    [][\A r \in ReqIds :
          /\ (ConsultsCache(r) /\ cacheTime = 0) =>
                 GoesUpstream(r) /\ req'[r].cacheTimeMs = 0 /\ cache' = cache
          /\ (req[r].pc = "fetching" /\ req[r].cacheTimeMs = 0 /\ req'[r].pc # "fetching") =>
                 last'.via = "upstream" /\ cache' = cache]_vars

\* C2 witness: a request that read expiry 0 is upstream although the cache holds a
\* fresh entry for its descriptor, stored earlier under a non-zero expiry.
C2_Witness ==
    \E r \in ReqIds :
        /\ req[r].pc = "fetching" /\ req[r].cacheTimeMs = 0
        /\ FreshEntry(req[r].msg, MsPerHour)

\* C4: with expiry 1 hour, a credential and an empty cache, two identical
\* GET_TRENDING_VIDEOS requests in rapid succession (the second may arrive before the
\* first completed) cause one upstream call: they are never both upstream.
C4_OneUpstreamCall ==
    ~(/\ now = MsPerHour
      /\ delivered = 2
      /\ \A r \in ReqIds :
            /\ req[r].pc = "fetching"
            /\ req[r].msg.type = "GET_TRENDING_VIDEOS"
            /\ req[r].cacheTimeMs = MsPerHour)

\* C3: after the credential in memory has changed, no payload that was fetched
\* under the previous credential is served: a request() that was issued with the
\* credential now in memory and returns a payload from the cache returns one that
\* was fetched with that credential.
C3_NoPayloadOfPreviousCredential ==
    [][\A r \in ReqIds :
          (ConsultsCache(r) /\ ReturnsCached(r) /\ req[r].cred = apiKey) =>
              cache[KeyOf(req[r].msg)].cred = apiKey]_vars

\* C8: once SAVE_API_KEY with the empty string has emptied the credential, a
\* SAVE_API_KEY with a non-empty key is accepted: it is never turned away at the
\* gate while the credential in memory is the empty string.
C8_NonEmptyKeyAcceptedAfterReset ==
    ~(/\ last.kind = "response"
      /\ last.msg.type = "SAVE_API_KEY"
      /\ Truthy(last.msg.apiKey)
      /\ apiKey = ""
      /\ ~last.resp.success)

\* C9: SAVE_API_KEY bypasses the gating: whatever the state of the worker, it is
\* never answered with one of the two gate errors.
C9_SaveKeyBypassesGate ==
    (last.kind = "response" /\ last.msg.type = "SAVE_API_KEY") =>
        last.resp.error \notin {ErrNotInitialized, ErrContextInvalid}

\* Handler r has been called and has not returned yet.
Pending(r) == req[r].pc # "idle"

\* The step is the call of handleMessage for a message.
Delivers == delivered' = delivered + 1

Dispatches(r) == req[r].pc = "idle" /\ req'[r].pc = "awaitCacheTime"
AnswersPayload(r) ==
    req[r].pc # "idle" /\ req'[r].pc = "idle" /\ last'.resp.success /\ last'.resp.hasData
Serves(r) == Dispatches(r) \/ ConsultsCache(r) \/ AnswersPayload(r)

\* Readiness Ready: initialization has completed with a loaded credential and has
\* not been reset since.
Ready == isInitialized /\ Truthy(apiKey)

\* C6: no request is served while the worker is not Ready: every dispatch, cache
\* read, upstream call and success response of a data request happens in a state
\* where initialization has completed with a credential and has not been reset.
C6_ServedOnlyWhenReady == [][\A r \in ReqIds : Serves(r) => Ready]_vars

\* C7: a request submitted while the worker is initializing is queued, never
\* dropped: no message sent during an initialization is left without a receiver.
C7_QueuedWhileInitializing == ~(last.kind = "noReceiver" /\ last.initializing)

\* C10 as stated: the readiness machine has no terminal state: whenever an
\* initialization has failed and the cooldown since the last attempt has passed,
\* an activation starts a new attempt, however many attempts have failed.
C10_AlwaysRetries ==
    (/\ ~isInitialized
     /\ initPending = 0
     /\ initializationAttempts > 0
     /\ now - lastInitAttemptTime >= INIT_COOLDOWN_MS) => ENABLED Activate

\* A new initialization attempt starts in this step.
StartsInit == initializationAttempts' > initializationAttempts

\* The worker has used up its attempts and none of them is still running.
Exhausted ==
    /\ initializationAttempts = MAX_INITIALIZATION_ATTEMPTS
    /\ initPending = 0
    /\ ~isInitialized

\* C10, amended: an attempt starts only on an activation of a worker that is not
\* initialized, has started fewer than MAX_INITIALIZATION_ATTEMPTS attempts and
\* whose last attempt began at least INIT_COOLDOWN_MS ago; the count never exceeds
\* the maximum, and a worker that has used up its attempts without success stays
\* uninitialized: that state is terminal until the process is restarted.
C10_RetriesAreBounded ==
    [][/\ StartsInit =>
             /\ ~isInitialized
             /\ initializationAttempts < MAX_INITIALIZATION_ATTEMPTS
             /\ (lastInitAttemptTime = 0
                    \/ now - lastInitAttemptTime >= INIT_COOLDOWN_MS)
             /\ last' = last
       /\ initializationAttempts' <= MAX_INITIALIZATION_ATTEMPTS
       /\ Exhausted => Exhausted']_vars

C10_Witness == Exhausted /\ now - lastInitAttemptTime >= INIT_COOLDOWN_MS

\* The step is a call of an accessor made without handleMessage.
Calling == delivered' = delivered + 1 /\ last'.direct

\* C11: request() invoked while no non-empty credential is configured throws the
\* NotConfigured error at once: the cache is not consulted and not modified, no
\* storage read and no HTTP call is started.
C11_NotConfiguredBeforeCache ==
    [][(Calling /\ ~Truthy(apiKey)) =>
          /\ last'.kind = "threw"
          /\ last'.resp = Failure(ErrKeyNotSet)
          /\ last'.via = "none"
          /\ cache' = cache
          /\ req' = req]_vars

C11_Witness ==
    /\ last.kind = "threw" /\ last.direct
    /\ last.resp.error = ErrKeyNotSet
    /\ apiKey = ""
    /\ cacheTime > 0
    /\ cache[KeyOf(last.msg)].present

\* handleMessage has answered a GET_VIDEO_DATA request for which the HTTP call
\* succeeded with an empty list of items.
VideoAnsweredForEmptyList ==
    /\ last.kind = "response"
    /\ last.msg.type = "GET_VIDEO_DATA"
    /\ last.http = "ok"
    /\ last.payload = "empty"

\* C12: a GET_VIDEO_DATA request for which upstream returns a successful response
\* with items = [] is answered {success: false, error: "Video not found or no data
\* available."}: the message of getVideoData, not an upstream-error or
\* context-failure message.
C12_EmptyListIsVideoNotFound ==
    VideoAnsweredForEmptyList => last.resp = Failure(ErrVideoNotFound)

C12_Witness == VideoAnsweredForEmptyList /\ last.nresp = 1 /\ Truthy(apiKey)

\* An accessor called without handleMessage has ended, and request() had handed it
\* an empty list of items.
EndedOnEmptyList ==
    /\ last.direct
    /\ last.kind \in {"returned", "threw"}
    /\ last.payload = "empty"

\* C13 as stated: each of the five accessors translates an empty list into a
\* NotFound failure: none returns successfully on an empty list.
C13_EveryAccessorNotFound == EndedOnEmptyList => last.kind = "threw"

\* The message of the NotFound error of the three accessors that have one.
NotFoundOf(accessor) ==
    CASE accessor = "getVideoData" -> ErrVideoNotFound
      [] accessor = "getChannelData" -> ErrChannelNotFound
      [] accessor = "getTrendingVideos" -> ErrNoTrending
      [] OTHER -> Null

\* C13, amended: getVideoData, getChannelData and getTrendingVideos throw their
\* NotFound error for an empty list; getVideoComments and searchContent return
\* the empty list successfully.
C13_EmptyListByAccessor ==
    EndedOnEmptyList =>
        IF last.msg.type \in {"getVideoComments", "searchContent"}
        THEN last.kind = "returned" /\ last.resp = Success("empty")
        ELSE last.kind = "threw" /\ last.resp = Failure(NotFoundOf(last.msg.type))

C13_Witness ==
    /\ EndedOnEmptyList
    /\ last.msg.type = "searchContent"
    /\ last.http = "ok"
    /\ last.resp.success

\* request() has ended after an HTTP call that returned a non-2xx status.
EndedOnHttpStatus ==
    /\ last.kind \in {"threw", "response"}
    /\ last.http \in {"structured", "status", "notJson"}

\* C14: after a non-2xx status request() fails with the upstream error.message when
\* the body is a structured error, and otherwise with the generic status message,
\* also when the body cannot be parsed at all.
C14_StatusMessageFallback ==
    EndedOnHttpStatus =>
        last.resp.error = IF last.http = "structured" THEN ErrUpstream ELSE ErrStatus

\* An error was raised while the handler of this event ran: a chrome.storage call
\* rejected, the HTTP call failed, or the accessor or a dataProcessor function threw
\* on the payload.
ErrorRaised(ev) ==
    \/ ev.storage = "rejected"
    \/ ev.http \in HttpFailures
    \/ ev.payload # Null /\ ~Handled(ev.msg.type, ev.payload).ok

\* Handler r of handleMessage returns in this step.
HandlerEnds(r) == Pending(r) /\ ~req[r].direct /\ ~Pending(r)'

\* C15: no failure crosses the router boundary as an exception: a handler in which
\* an error was raised ends by sending {success: false, error: <string>}, and
\* handleMessage never rejects.
C15_ErrorsBecomeResponses ==
    [][\A r \in ReqIds :
          HandlerEnds(r) =>
              /\ last'.kind = "response"
              /\ last'.msg = req[r].msg
              /\ ErrorRaised(last') =>
                    /\ ~last'.resp.success
                    /\ ~last'.resp.hasData
                    /\ Truthy(last'.resp.error)]_vars

C15_Witness ==
    /\ last.kind = "response"
    /\ last.msg.type = "ANALYZE_VIDEO_DATA"
    /\ last.payload = "malformed"
    /\ last.resp = Failure(ErrTitleTypeError)

\* C16 as stated: every response of handleMessage has data if and only if success
\* is true, and an error string if and only if success is false.
C16_DataIffSuccess ==
    last.kind = "response" =>
        /\ last.resp.success \in BOOLEAN
        /\ last.resp.hasData <=> last.resp.success
        /\ Truthy(last.resp.error) <=> ~last.resp.success

\* C16, amended: every response has an error string if and only if success is
\* false, and never data without success; a successful response carries data for
\* the GET_* and ANALYZE_* kinds and none for SAVE_API_KEY and CLEAR_CACHE.
C16_ResponseShape ==
    last.kind = "response" =>
        /\ last.resp.success \in BOOLEAN
        /\ Truthy(last.resp.error) <=> ~last.resp.success
        /\ last.resp.hasData => last.resp.success
        /\ last.resp.success => (last.resp.hasData <=> last.msg.type \in DataTypes)
        /\ last.resp.success => last.msg.type \in RequestKinds

C16_Witness ==
    /\ last.kind = "response"
    /\ last.msg.type = "SAVE_API_KEY"
    /\ last.resp.success /\ ~last.resp.hasData
    /\ storedKey = last.msg.apiKey

\* handleMessage has answered a request of a kind it does not know.
UnknownAnswered == last.kind = "response" /\ last.msg.type \notin RequestKinds

\* C17 as stated: a request of an unknown kind is answered {success: false,
\* error: "Unknown message type"}.
C17_UnknownKindAnswer == UnknownAnswered => last.resp = Failure(ErrUnknownType)

\* The step is the call of handleMessage for a request of an unknown kind.
DeliversUnknown == Delivers /\ ~last'.direct /\ last'.msg.type \notin RequestKinds

\* C17, amended: a request of an unknown kind is answered at once with a failure:
\* the error of the context gate when the context is invalid, else the error of the
\* credential gate when no credential is loaded, else "Unknown message type";
\* handling it makes no upstream call and leaves the credential, the cache, the
\* listener registration and the other handlers unchanged.
C17_UnknownKindAfterGates ==
    [][DeliversUnknown =>
          /\ last'.kind = "response" /\ last'.nresp = 1
          /\ last'.resp = Failure(CASE ctx # "valid" -> ErrContextInvalid
                                    [] ~Truthy(apiKey) -> ErrNotInitialized
                                    [] OTHER -> ErrUnknownType)
          /\ last'.calls = 0 /\ last'.via = "none"
          /\ UNCHANGED <<apiKey, cache, req, listenerVars, isInitialized, storageVars>>]_vars

C17_Witness ==
    /\ UnknownAnswered
    /\ last.resp = Failure(ErrNotInitialized)
    /\ isInitialized /\ listeners = 1

\* C18: handling one GET_* or ANALYZE_* request issues at most one upstream HTTP
\* call, none when the cache answers, and a failed HTTP call (non-2xx status or
\* transport error) is answered with a failure response after that one call.
C18_NoUpstreamRetry ==
    /\ \A r \in ReqIds : req[r].calls <= 1
    /\ last.calls <= 1
    /\ last.via = "cache" => last.calls = 0
    /\ (last.http \in HttpFailures /\ ~last.direct) =>
          /\ last.msg.type \in DataTypes
          /\ last.calls = 1
          /\ last.kind = "response" /\ last.nresp = 1
          /\ last.resp = Failure(RequestError(last.http))

C18_Witness ==
    /\ last.http \in {"status", "network"}
    /\ last.msg.type \in AnalyzeTypes
    /\ last.kind = "response" /\ last.calls = 1
    /\ ~last.resp.success

\* The call of sendMessageWithRetry has ended.
RetryEnded == popup.pc \in {"returned", "threw"}

\* C19: sendMessageWithRetry makes at most maxRetries + 1 attempts; every attempt
\* but the last ended with "Receiving end does not exist", so any other failure
\* (an undefined response included) is thrown the first time it occurs; the first
\* wait is the initial delay, each later wait is 1.5 times the one before, capped at
\* 3000 ms; a call that returns returns the response of its last attempt, one that
\* throws throws the error of its last attempt; and every call ends.
C19_BoundedRetry ==
    /\ [](LET n == Len(popup.outcomes)
              w == Len(popup.waits)
          IN  /\ n <= popup.maxRetries + 1
              /\ w <= popup.maxRetries
              /\ \A i \in 1..(n - 1) : popup.outcomes[i] = "noReceiver"
              /\ \A i \in 1..w :
                    /\ popup.waits[i] <= MaxDelayMs * DelayScale
                    /\ popup.waits[i] =
                         IF i = 1 THEN DefaultDelayMs * DelayScale
                         ELSE IF popup.waits[i - 1] * 3 <= 2 * MaxDelayMs * DelayScale
                              THEN (popup.waits[i - 1] * 3) \div 2
                              ELSE MaxDelayMs * DelayScale
              /\ popup.pc = "returned" =>
                    /\ popup.outcomes[n] = "response"
                    /\ popup.result.ok /\ popup.result.value \in PopupResponses
              /\ popup.pc = "threw" =>
                    /\ popup.outcomes[n] # "response"
                    /\ popup.result = Throws(AttemptError(popup.outcomes[n]))
                    /\ popup.outcomes[n] = "noReceiver" => n = popup.maxRetries + 1)
    /\ (popup.pc # "idle" ~> RetryEnded)

C19_Witness ==
    /\ popup.pc = "threw"
    /\ popup.maxRetries = MaxRetries
    /\ Len(popup.outcomes) = MaxRetries + 1
    /\ popup.waits[Len(popup.waits)] = MaxDelay
    /\ popup.result.error = ErrNoReceiver

\* request() of handler r is between the computation of its cache key and its end.
InRequest(r) == req[r].pc \in {"awaitCacheTime", "fetching"}

\* C20: the cache key of every request() is the URL built from the endpoint and the
\* parameters, with no part that is a credential; requests for the same data made
\* under different credentials have the same cache key; and the URL fetched is the
\* cache key followed by "&key=" and the credential.
C20_KeyWithoutCredential ==
    \A r \in ReqIds : InRequest(r) =>
        /\ req[r].key = <<BASE_URL, "/", EndpointOf(req[r].msg), "?",
                          QueryString(ParamsOf(req[r].msg))>>
        /\ \A i \in 1..Len(req[r].key[5]), j \in 1..3 :
              req[r].key[5][i][j] \notin Credentials
        /\ \A q \in ReqIds : (InRequest(q) /\ req[q].msg = req[r].msg) =>
              req[q].key = req[r].key
        /\ req[r].pc = "fetching" =>
              req[r].url = <<req[r].key, "&key=", req[r].cred>>

C20_Witness ==
    /\ InRequest(1) /\ InRequest(2)
    /\ req[1].msg = req[2].msg
    /\ req[1].cred = "K1" /\ req[2].cred = "K2"
    /\ req[1].pc = "fetching" /\ req[2].pc = "fetching"

\* calculateVideoKPIs has returned the KPIs of a video with statistics.
ScoredVideo ==
    /\ dp.fn = "calculateVideoKPIs" /\ dp.done
    /\ dp.out.ok /\ dp.out.value.error = Null

\* C21: for every non-negative view, like and comment count and every publish date
\* not later than now, the performanceScore calculateVideoKPIs returns is between 0
\* and 100 and is the sum of the like, comment and view sub-scores, clamped to 100.
C21_PerformanceScoreRange ==
    ScoredVideo =>
        LET r == dp.out.value
            sum == LikeScore(r.likeCount, r.viewCount)
                   + CommentScore(r.commentCount, r.viewCount) + ViewScore(r.viewCount)
        IN  /\ r.performanceScore \in 0..100
            /\ r.performanceScore = IF sum > 100 THEN 100 ELSE sum
            /\ LikeScore(r.likeCount, r.viewCount) \in 5..40
            /\ CommentScore(r.commentCount, r.viewCount) \in 5..30
            /\ ViewScore(r.viewCount) \in 3..30

C21_Witness ==
    /\ ScoredVideo
    /\ dp.out.value.viewCount = 0 /\ dp.out.value.likeCount > 0
    /\ dp.out.value.performanceScore = 13

\* analyzeCommentSentiment has returned for a list of at least one comment.
SentimentOfNonEmptyList ==
    /\ dp.fn = "analyzeCommentSentiment" /\ dp.done
    /\ Has(dp.arg) /\ Len(The(dp.arg)) > 0

\* C22: for a non-empty comment list the divisor commentCount is greater than 0,
\* the three class counts add up to it, and the positive, neutral and negative
\* percentages add up to 100, up to the rounding to two decimals.
C22_PercentagesSumTo100 ==
    SentimentOfNonEmptyList =>
        LET r == dp.out.value
            d == r.sentimentDistribution
        IN  /\ r.counts.positive + r.counts.neutral + r.counts.negative = r.commentCount
            /\ r.commentCount > 0
            /\ d.positive + d.neutral + d.negative \in 9999..10001

\* C23: a derived-metrics function never throws: whatever fields its argument
\* lacks, the call returns a result object.
C23_MetricsNeverThrow == dp.done => dp.out.ok

\* The step is a run of cleanupInvalidContext in a worker whose context is gone and
\* that still holds its listener or its validator.
CleansUp ==
    /\ ctx # "valid"
    /\ messageHandler \/ contextValidator
    /\ ~messageHandler' /\ ~contextValidator' /\ ~isInitialized'

\* C24: when cleanupInvalidContext runs for a context that is gone, no listener of
\* the worker remains registered with chrome.runtime.onMessage and no validator
\* timer remains live.
C24_CleanupDeregisters == [][CleansUp => listeners' = 0 /\ timers' = 0]_vars

\* C25: a step that changes the cache is either a bulk clear, made by a CLEAR_CACHE
\* or SAVE_API_KEY that is acknowledged, or the insertion, by a request() that
\* missed and whose upstream call succeeded, of one whole entry (the payload, the
\* time) under its key, every other entry staying as it was. So a cache hit, a read
\* of an expired entry, a failed request and an unknown request leave every entry
\* unchanged.
C25_CacheFrame ==
    [][cache' # cache =>
          \/ /\ cache' = [k \in DOMAIN cache |-> NoEntry]
             /\ last'.msg.type \in {"CLEAR_CACHE", "SAVE_API_KEY"}
             /\ last'.kind = "response" /\ last'.resp.success
          \/ \E r \in ReqIds :
                /\ req[r].pc = "fetching" /\ req[r].calls = 1 /\ req[r].cacheTimeMs > 0
                /\ last'.msg = req[r].msg /\ last'.via = "upstream" /\ last'.http = "ok"
                /\ cache'[req[r].key] = [present |-> TRUE, items |-> last'.payload,
                                         cred |-> req[r].cred, timestamp |-> now]
                /\ \A k \in DOMAIN cache \ {req[r].key} : cache'[k] = cache[k]]_vars

\* A request found an expired entry, went upstream and failed: the entry is still there.
C25_Witness ==
    /\ last.http \in HttpFailures /\ last.kind \in {"response", "returned"}
    /\ last.msg.type \in DataTypes \cup Accessors
    /\ cache[KeyOf(last.msg)].present
    /\ now - cache[KeyOf(last.msg)].timestamp >= MsPerHour

\* C26: at every moment at most one handleMessage listener of the worker is
\* registered with chrome.runtime.onMessage, and the worker's own record of an
\* active listener implies that exactly one is registered.
C26_AtMostOneListener ==
    /\ listeners \in {0, 1}
    /\ (isListenerActive \/ messageHandler) => listeners = 1

\* A second initialization has completed: its listener replaced the first one.
C26_Witness ==
    /\ initializationAttempts >= 2 /\ initPending = 0
    /\ isInitialized /\ isListenerActive /\ listeners = 1

C28_FailuresKeepListener ==
    [][\A r \in ReqIds :
          (HandlerEnds(r) /\ ctx = "valid") => UNCHANGED <<listenerVars, isInitialized>>]_vars

\* C29: once a SAVE_API_KEY has been answered with success: false and no other
\* SAVE_API_KEY is being processed, the credential in memory is the one held in
\* chrome.storage.sync, as it was before the request.
C29_FailedSaveKeepsCredential ==
    (/\ last.kind = "response" /\ last.msg.type = "SAVE_API_KEY"
     /\ ~last.resp.success
     /\ \A r \in ReqIds : req[r].msg.type # "SAVE_API_KEY") =>
        Stored(apiKey) = storedKey

\* C30: invalidCallback runs at a poll exactly when the context was valid at the
\* poll before (at the creation, for the first poll) and is invalid at this one,
\* never at a poll that finds the context still valid or already invalid; and a
\* callback that throws does not stop the polls: the next poll is made and the
\* validator compares it with the poll at which the callback threw.
C30_EdgeTriggered ==
    /\ cv.created => Len(cv.readings) = Len(cv.called) + 1
    /\ \A i \in 1..Len(cv.called) :
          /\ cv.called[i] <=> (cv.readings[i] /\ ~cv.readings[i + 1])
          /\ cv.threw[i] => cv.called[i]
    /\ cv.created => cv.previousState = cv.readings[Len(cv.readings)]
    /\ (cv.created /\ Len(cv.called) < MaxPolls) => ENABLED ValidatorPoll(FALSE)

\* The callback threw at one poll, and ran again at a later poll after the context
\* had been valid in between.
C30_Witness ==
    \E i, j \in 1..Len(cv.called) :
        /\ i + 1 < j
        /\ cv.threw[i] /\ cv.called[j]
        /\ ~cv.called[i + 1]

====
